---- MODULE Spec2Model ----
(***************************************************************************)
(* Model of the two programs of the repository:                            *)
(*   - test/rust-reference-impls/verifier/src/proof_link.rs: the sum and   *)
(*     product circuits, their verification keys and generate_proofs;      *)
(*   - codegen/merkle-zeros/src/main.rs: the generator of MerkleZeros.sol. *)
(* The proving backend (mpc_plonk, renegade_circuit_types) and the         *)
(* verifier are idealised: a commitment binds the values it commits to.    *)
(***************************************************************************)
EXTENDS Integers, Sequences, FiniteSets, TLC

VARIABLES
    \* ---- proof_link.rs: one process calling the public functions
    pc,                 \* position inside generate_proofs
    run,                \* number of generate_proofs calls made so far
    session,            \* number of proofs the backend has produced so far
    sum_witness, product_witness,       \* arguments of generate_proofs
    sum, product,                       \* the derived statements
    sum_proof, sum_link_hint,           \* locals of generate_proofs
    product_proof, product_link_hint,
    group_layout,
    link_proof,
    result,             \* the tuple generate_proofs returned
    sum_vk, product_vk, link_vk,        \* the generated verification keys
    verdict,            \* the verifier's outcomes on the returned tuple
    \* ---- a single prover call with a caller-supplied statement
    pv_pc, pv_circuit, pv_witness, pv_statement, pv_result, pv_checked, pv_verdict,
    \* ---- merkle-zeros/main.rs
    mz_pc,              \* position inside main / generate_solidity_contract
    zero_values,        \* the vector generate_zero_values builds
    constants,          \* emitted: constants[i + 1] is the value of ZERO_VALUE_i
    root_constant,      \* emitted: the value of ZERO_VALUE_ROOT
    require_max,        \* emitted: the bound of getZeroValue's require
    cases,              \* emitted: the cases of getZeroValue's switch
    body,               \* emitted: the statements of getZeroValue, in order
    call_height, call_result    \* a call of the emitted getZeroValue

plVars == <<pc, run, session, sum_witness, product_witness, sum, product,
            sum_proof, sum_link_hint, product_proof, product_link_hint,
            group_layout, link_proof, result, sum_vk, product_vk, link_vk, verdict>>
pvVars == <<pv_pc, pv_circuit, pv_witness, pv_statement, pv_result, pv_checked, pv_verdict>>
mzVars == <<mz_pc, zero_values, constants, root_constant, require_max, cases, body,
            call_height, call_result>>
vars == <<plVars, pvVars, mzVars>>

\* ------------------------------------------------------------------ bounds

\* The scalar field is modelled by the integers modulo ScalarModulus.
ScalarModulus == 32749
\* A shared witness differs from <<1,2,3,4,5>> in at most one position, by at most MaxDelta.
MaxDelta == 1
\* generate_proofs is called at most MaxRuns times.
MaxRuns == 2
\* The emitted getZeroValue is called with heights 0..MaxCallHeight.
MaxCallHeight == 33

\* ------------------------------------------------------------------ scalars

ScalarAdd(a, b) == (a + b) % ScalarModulus
ScalarMul(a, b) == (a * b) % ScalarModulus

\* An absent value (an unset local, Option::None).
None == [none |-> TRUE]

\* ------------------------------------------------------------------ proof_link.rs

LINKING_WITNESS_SIZE == 5
LINKING_GROUP_NAME == "sum-and-product-link-group"
NoGroup == ""

\* The witness type of the sum circuit: its fields in declaration order.
SumCircuitWitness ==
    << [name |-> "shared_witness", arity |-> LINKING_WITNESS_SIZE, array |-> TRUE,
        link_groups |-> "sum-and-product-link-group"],
       [name |-> "private_witness", arity |-> 1, array |-> FALSE, link_groups |-> NoGroup] >>

ProductCircuitWitnessReordered ==
    << [name |-> "private_witness", arity |-> 1, array |-> FALSE, link_groups |-> NoGroup],
       [name |-> "shared_witness", arity |-> LINKING_WITNESS_SIZE, array |-> TRUE,
        link_groups |-> "sum-and-product-link-group"] >>

\* The witness type of the product circuit: its fields in declaration order.
ProductCircuitWitness ==
    << [name |-> "shared_witness", arity |-> LINKING_WITNESS_SIZE, array |-> TRUE,
        link_groups |-> "sum-and-product-link-group"],
       [name |-> "private_witness", arity |-> 1, array |-> FALSE, link_groups |-> NoGroup] >>

SumCircuit == "sum-circuit"
ProductCircuit == "product-circuit"
Circuits == {SumCircuit, ProductCircuit}

WitnessType(c) == IF c = SumCircuit THEN SumCircuitWitness ELSE ProductCircuitWitness

\* SumCircuitWitness::statement: the loop over the shared values, then the private one.
RECURSIVE SumLoop(_, _, _)
SumLoop(w, i, acc) ==
    IF i > LINKING_WITNESS_SIZE THEN acc
    ELSE SumLoop(w, i + 1, ScalarAdd(acc, w.shared_witness[i]))

SumCircuitWitness_statement_NoPrivate(w) == SumLoop(w, 1, 0)

SumCircuitWitness_statement(w) == ScalarAdd(SumLoop(w, 1, 0), w.private_witness)

\* ProductCircuitWitness::statement.
RECURSIVE ProductLoop(_, _, _)
ProductLoop(w, i, acc) ==
    IF i > LINKING_WITNESS_SIZE THEN acc
    ELSE ProductLoop(w, i + 1, ScalarMul(acc, w.shared_witness[i]))

ProductCircuitWitness_statement(w) == ScalarMul(ProductLoop(w, 1, 1), w.private_witness)

\* SumCircuit::apply_constraints: the gates it inserts, evaluated on the assignment;
\* TRUE when the enforce_equal gate is satisfied.
SumCircuit_apply_constraints_NoPrivate(witness_var, statement_var) ==
    SumLoop(witness_var, 1, 0) = statement_var

SumCircuit_apply_constraints(witness_var, statement_var) ==
    LET sum0 == SumLoop(witness_var, 1, 0)                      \* cs.sum
        sum1 == ScalarAdd(sum0, witness_var.private_witness)    \* cs.add
    IN  sum1 = statement_var                                    \* cs.enforce_equal

\* ProductCircuit::apply_constraints.
ProductCircuit_apply_constraints(witness_var, statement_var) ==
    LET product0 == ProductLoop(witness_var, 1, 1)                      \* cs.one, cs.mul
        product1 == ScalarMul(product0, witness_var.private_witness)    \* cs.mul
    IN  product1 = statement_var                                        \* cs.enforce_equal

apply_constraints(c, w, s) ==
    IF c = SumCircuit THEN SumCircuit_apply_constraints(w, s)
    ELSE ProductCircuit_apply_constraints(w, s)

Statement(c, w) ==
    IF c = SumCircuit THEN SumCircuitWitness_statement(w)
    ELSE ProductCircuitWitness_statement(w)

\* ------------------------------------------------------------------ the backend

\* The wire at which field k of a witness type starts (wires are numbered from 1).
RECURSIVE FieldOffset(_, _)
FieldOffset(schema, k) ==
    IF k = 1 THEN 0 ELSE FieldOffset(schema, k - 1) + schema[k - 1].arity

\* get_circuit_layout: witness wires are allocated in field-declaration order and
\* every field tagged with a link group records its wires under that group.
get_circuit_layout(c) ==
    LET schema == WitnessType(c) IN
    [ n_wires |-> FieldOffset(schema, Len(schema) + 1),
      groups  |-> { [ id |-> schema[k].link_groups,
                      positions |-> [j \in 1..schema[k].arity |-> FieldOffset(schema, k) + j] ]
                    : k \in {i \in 1..Len(schema) : schema[i].link_groups # NoGroup} } ]

get_group_layout(layout, id) == CHOOSE g \in layout.groups : g.id = id

\* The wire assignment of a witness: its scalars in field-declaration order.
RECURSIVE WitnessWires(_, _, _)
WitnessWires(schema, w, k) ==
    IF k > Len(schema) THEN <<>>
    ELSE (IF schema[k].array THEN w[schema[k].name] ELSE <<w[schema[k].name]>>)
         \o WitnessWires(schema, w, k + 1)

CommitKey == "srs"
proving_key(c) == [circuit |-> c, layout |-> get_circuit_layout(c), commit_key |-> CommitKey]
verifying_key(c) == [circuit |-> c, layout |-> get_circuit_layout(c)]

Ok(v) == [ok |-> TRUE, value |-> v]
Err(e) == [ok |-> FALSE, error |-> e]

\* prove_with_link_hint: the outcomes the backend can produce. A satisfied
\* constraint system yields a valid proof and the hint committing to its wires.
\* What it does with an unsatisfied one is not fixed by this repository: it either
\* fails or returns a proof that no verifier accepts.
prove_with_link_hint(c, w, s, id) ==
    LET hint == [session |-> id, circuit |-> c, wires |-> WitnessWires(WitnessType(c), w, 1)]
        proof(v) == [session |-> id, circuit |-> c, statement |-> s, valid |-> v]
    IN  IF apply_constraints(c, w, s)
        THEN { Ok([proof |-> proof(TRUE), hint |-> hint]) }
        ELSE { Err("ConstraintError"), Ok([proof |-> proof(FALSE), hint |-> hint]) }

\* link_proofs: the linking proof is valid exactly when the two hints commit to the
\* same values at the positions of the group layout (binding is ideal).
link_proofs(hint1, hint2, layout, commit_key) ==
    LET same == \A j \in DOMAIN layout.positions :
                    hint1.wires[layout.positions[j]] = hint2.wires[layout.positions[j]]
        proof(v) == [a |-> hint1.session, b |-> hint2.session, layout |-> layout,
                     valid |-> v /\ commit_key = CommitKey]
    IN  IF same THEN { Ok(proof(TRUE)) }
        ELSE { Err("LinkError"), Ok(proof(FALSE)) }

\* The verifier.
verify_proof(vk, statement, proof) ==
    IF proof.valid /\ proof.circuit = vk.circuit /\ proof.statement = statement
    THEN "accepted" ELSE "rejected-invalid"

verify_link(lvk, proof) ==
    IF proof.valid /\ proof.layout = lvk.layout THEN "accepted" ELSE "rejected"

\* The conversions to the contract's types (VerificationKey::from, ProofLinkingVK::from,
\* PlonkProof::from, LinkingProof::from): a field-by-field copy into the ABI struct.
VerificationKey_from(vk) == [format |-> "VerificationKey", circuit |-> vk.circuit, layout |-> vk.layout]
ProofLinkingVK_from(layout) == [format |-> "ProofLinkingVK", layout |-> layout]
PlonkProof_from(p) ==
    [format |-> "PlonkProof", session |-> p.session, circuit |-> p.circuit,
     statement |-> p.statement, valid |-> p.valid]
LinkingProof_from(p) ==
    [format |-> "LinkingProof", a |-> p.a, b |-> p.b, layout |-> p.layout, valid |-> p.valid]

\* ------------------------------------------------------------------ inputs

Base == [i \in 1..LINKING_WITNESS_SIZE |-> i]
SharedWitnesses ==
    {Base} \cup {[Base EXCEPT ![i] = Base[i] + d] : i \in 1..LINKING_WITNESS_SIZE, d \in 1..MaxDelta}
PrivateWitnesses == {2, 10}
Witnesses == [shared_witness : SharedWitnesses, private_witness : PrivateWitnesses]

\* ------------------------------------------------------------------ key generation

generate_sum_circuit_verification_key ==
    /\ pc \in {"idle", "returned", "verified"}
    /\ sum_vk' = VerificationKey_from(verifying_key(SumCircuit))
    /\ UNCHANGED <<pc, run, session, sum_witness, product_witness, sum, product,
                   sum_proof, sum_link_hint, product_proof, product_link_hint,
                   group_layout, link_proof, result, product_vk, link_vk, verdict>>
    /\ UNCHANGED <<pvVars, mzVars>>

generate_product_circuit_verification_key ==
    /\ pc \in {"idle", "returned", "verified"}
    /\ product_vk' = VerificationKey_from(verifying_key(ProductCircuit))
    /\ UNCHANGED <<pc, run, session, sum_witness, product_witness, sum, product,
                   sum_proof, sum_link_hint, product_proof, product_link_hint,
                   group_layout, link_proof, result, sum_vk, link_vk, verdict>>
    /\ UNCHANGED <<pvVars, mzVars>>

\* The group layout the linking verification key is derived from.
LinkingVKGroupLayout ==
    LET layout == get_circuit_layout(SumCircuit)
    IN  get_group_layout(layout, LINKING_GROUP_NAME)

generate_sum_product_linking_verification_key ==
    /\ pc \in {"idle", "returned", "verified"}
    /\ link_vk' = ProofLinkingVK_from(LinkingVKGroupLayout)
    /\ UNCHANGED <<pc, run, session, sum_witness, product_witness, sum, product,
                   sum_proof, sum_link_hint, product_proof, product_link_hint,
                   group_layout, link_proof, result, sum_vk, product_vk, verdict>>
    /\ UNCHANGED <<pvVars, mzVars>>

\* ------------------------------------------------------------------ generate_proofs

UnwrapIgnoringErr(res, next) == next

\* Result::unwrap: the position after the call, a panic on Err.
Unwrap(res, next) == IF res.ok THEN next ELSE "panicked"

\* The caller passes the two witnesses; the frame's locals are unset.
generate_proofs_call ==
    /\ pc \in {"idle", "returned", "verified"}
    /\ run < MaxRuns
    /\ \E sw \in Witnesses, pw \in Witnesses :
          /\ sum_witness' = sw
          /\ product_witness' = pw
    /\ run' = run + 1
    /\ pc' = "called"
    /\ sum' = None /\ product' = None
    /\ sum_proof' = None /\ sum_link_hint' = None
    /\ product_proof' = None /\ product_link_hint' = None
    /\ group_layout' = None /\ link_proof' = None
    /\ result' = None /\ verdict' = None
    /\ UNCHANGED <<session, sum_vk, product_vk, link_vk>>
    /\ UNCHANGED <<pvVars, mzVars>>

generate_proofs_statements ==
    /\ pc = "called"
    /\ sum' = SumCircuitWitness_statement(sum_witness)
    /\ product' = ProductCircuitWitness_statement(product_witness)
    /\ pc' = "statements"
    /\ UNCHANGED <<run, session, sum_witness, product_witness,
                   sum_proof, sum_link_hint, product_proof, product_link_hint,
                   group_layout, link_proof, result, sum_vk, product_vk, link_vk, verdict>>
    /\ UNCHANGED <<pvVars, mzVars>>

generate_proofs_prove_sum ==
    /\ pc = "statements"
    /\ \E res \in prove_with_link_hint(SumCircuit, sum_witness, sum, session + 1) :
          /\ pc' = Unwrap(res, "sum_proved")
          /\ sum_proof' = IF res.ok THEN res.value.proof ELSE None
          /\ sum_link_hint' = IF res.ok THEN res.value.hint ELSE None
    /\ session' = session + 1
    /\ UNCHANGED <<run, sum_witness, product_witness, sum, product,
                   product_proof, product_link_hint,
                   group_layout, link_proof, result, sum_vk, product_vk, link_vk, verdict>>
    /\ UNCHANGED <<pvVars, mzVars>>

generate_proofs_prove_product ==
    /\ pc = "sum_proved"
    /\ \E res \in prove_with_link_hint(ProductCircuit, product_witness, product, session + 1) :
          /\ pc' = Unwrap(res, "product_proved")
          /\ product_proof' = IF res.ok THEN res.value.proof ELSE None
          /\ product_link_hint' = IF res.ok THEN res.value.hint ELSE None
    /\ session' = session + 1
    /\ UNCHANGED <<run, sum_witness, product_witness, sum, product,
                   sum_proof, sum_link_hint,
                   group_layout, link_proof, result, sum_vk, product_vk, link_vk, verdict>>
    /\ UNCHANGED <<pvVars, mzVars>>

\* The group layout generate_proofs links on.
ProofsGroupLayout ==
    LET layout == get_circuit_layout(SumCircuit)
    IN  get_group_layout(layout, LINKING_GROUP_NAME)

generate_proofs_layout ==
    /\ pc = "product_proved"
    /\ group_layout' = ProofsGroupLayout
    /\ pc' = "layout"
    /\ UNCHANGED <<run, session, sum_witness, product_witness, sum, product,
                   sum_proof, sum_link_hint, product_proof, product_link_hint,
                   link_proof, result, sum_vk, product_vk, link_vk, verdict>>
    /\ UNCHANGED <<pvVars, mzVars>>

LinkCallSumHintTwice(sum_hint, product_hint, layout) ==
    link_proofs(sum_hint, sum_hint, layout, proving_key(SumCircuit).commit_key)

LinkCallSwapped(sum_hint, product_hint, layout) ==
    link_proofs(product_hint, sum_hint, layout, proving_key(SumCircuit).commit_key)

\* The call of link_proofs: the sum hint, the product hint, the group layout and the
\* commit key of the sum circuit's proving key.
LinkCall(sum_hint, product_hint, layout) ==
    LET pk == proving_key(SumCircuit)
    IN  link_proofs(sum_hint, product_hint, layout, pk.commit_key)

generate_proofs_link ==
    /\ pc = "layout"
    /\ \E res \in LinkCall(sum_link_hint, product_link_hint, group_layout) :
          /\ pc' = Unwrap(res, "linked")
          /\ link_proof' = IF res.ok THEN res.value ELSE None
    /\ UNCHANGED <<run, session, sum_witness, product_witness, sum, product,
                   sum_proof, sum_link_hint, product_proof, product_link_hint,
                   group_layout, result, sum_vk, product_vk, link_vk, verdict>>
    /\ UNCHANGED <<pvVars, mzVars>>

generate_proofs_return ==
    /\ pc = "linked"
    /\ result' = [sum_proof     |-> PlonkProof_from(sum_proof),
                  product_proof |-> PlonkProof_from(product_proof),
                  link_proof    |-> LinkingProof_from(link_proof)]
    /\ pc' = "returned"
    /\ UNCHANGED <<run, session, sum_witness, product_witness, sum, product,
                   sum_proof, sum_link_hint, product_proof, product_link_hint,
                   group_layout, link_proof, sum_vk, product_vk, link_vk, verdict>>
    /\ UNCHANGED <<pvVars, mzVars>>

\* The caller hands the returned tuple and the generated keys to the verifier.
Verify ==
    /\ pc = "returned"
    /\ sum_vk # None /\ product_vk # None /\ link_vk # None
    /\ verdict' = [sum     |-> verify_proof(sum_vk, SumCircuitWitness_statement(sum_witness),
                                            result.sum_proof),
                   product |-> verify_proof(product_vk,
                                            ProductCircuitWitness_statement(product_witness),
                                            result.product_proof),
                   link    |-> verify_link(link_vk, result.link_proof)]
    /\ pc' = "verified"
    /\ UNCHANGED <<run, session, sum_witness, product_witness, sum, product,
                   sum_proof, sum_link_hint, product_proof, product_link_hint,
                   group_layout, link_proof, result, sum_vk, product_vk, link_vk>>
    /\ UNCHANGED <<pvVars, mzVars>>

GenerateProofsStep ==
    \/ generate_proofs_statements
    \/ generate_proofs_prove_sum
    \/ generate_proofs_prove_product
    \/ generate_proofs_layout
    \/ generate_proofs_link
    \/ generate_proofs_return

PlInit ==
    /\ pc = "idle" /\ run = 0 /\ session = 0
    /\ sum_witness = None /\ product_witness = None
    /\ sum = None /\ product = None
    /\ sum_proof = None /\ sum_link_hint = None
    /\ product_proof = None /\ product_link_hint = None
    /\ group_layout = None /\ link_proof = None
    /\ result = None
    /\ sum_vk = None /\ product_vk = None /\ link_vk = None
    /\ verdict = None

PvIdle ==
    /\ pv_pc = "idle" /\ pv_circuit = None /\ pv_witness = None /\ pv_statement = None
    /\ pv_result = None /\ pv_checked = None /\ pv_verdict = None

MzIdle ==
    /\ mz_pc = "idle" /\ zero_values = <<>> /\ constants = <<>>
    /\ root_constant = None /\ require_max = None /\ cases = <<>> /\ body = <<>>
    /\ call_height = None /\ call_result = None

Init == PlInit /\ PvIdle /\ MzIdle

Next ==
    \/ generate_sum_circuit_verification_key
    \/ generate_product_circuit_verification_key
    \/ generate_sum_product_linking_verification_key
    \/ generate_proofs_call
    \/ generate_proofs_statements
    \/ generate_proofs_prove_sum
    \/ generate_proofs_prove_product
    \/ generate_proofs_layout
    \/ generate_proofs_link
    \/ generate_proofs_return
    \/ Verify

Spec == Init /\ [][Next]_vars

\* ------------------------------------------------------------------ one prover call

\* The statements a caller may supply or verify against: every derived statement,
\* and every sum or product of the shared values alone.
CandidateStatements ==
    {Statement(c, w) : c \in Circuits, w \in Witnesses}
        \cup {SumLoop(w, 1, 0) : w \in Witnesses}
        \cup {ProductLoop(w, 1, 1) : w \in Witnesses}

\* prove_with_link_hint called with a statement of the caller's choosing.
Prove ==
    /\ pv_pc = "idle"
    /\ \E c \in Circuits, w \in Witnesses, s \in CandidateStatements :
          /\ pv_circuit' = c /\ pv_witness' = w /\ pv_statement' = s
          /\ \E res \in prove_with_link_hint(c, w, s, 1) : pv_result' = res
    /\ pv_pc' = "proved"
    /\ UNCHANGED <<pv_checked, pv_verdict>>
    /\ UNCHANGED <<plVars, mzVars>>

\* verify_proof on the returned proof, with the circuit's verification key and a
\* statement of the caller's choosing.
VerifyProof ==
    /\ pv_pc = "proved"
    /\ pv_result.ok
    /\ \E s \in CandidateStatements :
          /\ pv_checked' = s
          /\ pv_verdict' = verify_proof(VerificationKey_from(verifying_key(pv_circuit)), s,
                                        PlonkProof_from(pv_result.value.proof))
    /\ pv_pc' = "verified"
    /\ UNCHANGED <<pv_circuit, pv_witness, pv_statement, pv_result>>
    /\ UNCHANGED <<plVars, mzVars>>

PlIdle == PlInit

ProverInit == PlIdle /\ PvIdle /\ MzIdle

ProverNext == Prove \/ VerifyProof

SpecProver == ProverInit /\ [][ProverNext]_vars

\* ------------------------------------------------------------------ merkle-zeros/main.rs

MERKLE_HEIGHT == 32
\* "renegade" as bytes.
LEAF_KECCAK_PREIMAGE == <<114, 101, 110, 101, 103, 97, 100, 101>>
DigestLen == 32

\* Keccak-256 and the Poseidon hash, abstracted: a digest of DigestLen bytes mixing
\* every input byte, and a two-to-one map on scalars.
RECURSIVE Absorb(_, _, _)
Absorb(input, i, k) ==
    IF i > Len(input) THEN k * k + 1
    ELSE (Absorb(input, i + 1, k) * 31 + input[i] * (i + k)) % 65521

Keccak_v256(input) == [k \in 1..DigestLen |-> Absorb(input, 1, k) % 256]

compute_poseidon_hash(values) ==
    (values[1] * values[1] + 3 * values[2] + 7) % ScalarModulus

\* Scalar::from_be_bytes_mod_order: the big-endian number of the bytes, reduced.
RECURSIVE from_be_bytes_mod_order(_, _, _)
from_be_bytes_mod_order(bytes, i, acc) ==
    IF i > Len(bytes) THEN acc
    ELSE from_be_bytes_mod_order(bytes, i + 1, (acc * 256 + bytes[i]) % ScalarModulus)

generate_leaf_zero_value ==
    LET input == LEAF_KECCAK_PREIMAGE
        output == Keccak_v256(input)
    IN  from_be_bytes_mod_order(output, 1, 0)

\* generate_zero_values: result = vec![leaf].
generate_zero_values_init ==
    /\ mz_pc = "idle"
    /\ zero_values' = <<generate_leaf_zero_value>>
    /\ mz_pc' = "zeros"
    /\ UNCHANGED <<constants, root_constant, require_max, cases, body, call_height, call_result>>
    /\ UNCHANGED <<plVars, pvVars>>

\* The body of the loop for height in 1..=MERKLE_HEIGHT, on the vector built so far
\* (values, the code's result); it is indexed from 1 here, so values[h] is the code's
\* result[height - 1].
NextZero(values, h) ==
    LET last_zero == values[h]
    IN  compute_poseidon_hash(<<last_zero, last_zero>>)

generate_zero_values_loop ==
    /\ mz_pc = "zeros"
    /\ Len(zero_values) <= MERKLE_HEIGHT
    /\ zero_values' = Append(zero_values, NextZero(zero_values, Len(zero_values)))
    /\ UNCHANGED <<mz_pc, constants, root_constant, require_max, cases, body,
                   call_height, call_result>>
    /\ UNCHANGED <<plVars, pvVars>>

generate_zero_values_return ==
    /\ mz_pc = "zeros"
    /\ Len(zero_values) > MERKLE_HEIGHT
    /\ mz_pc' = "constants"
    /\ UNCHANGED <<zero_values, constants, root_constant, require_max, cases, body,
                   call_height, call_result>>
    /\ UNCHANGED <<plVars, pvVars>>

EnumerateNoRev(values, i) == values[i + 1]

\* zero_values[..MERKLE_HEIGHT].iter().rev().enumerate(): the value paired with i.
EnumerateRev(values, i) == SubSeq(values, 1, MERKLE_HEIGHT)[MERKLE_HEIGHT - i]

\* One iteration of the loop emitting "uint256 constant public ZERO_VALUE_i = value".
emit_constant ==
    /\ mz_pc = "constants"
    /\ Len(constants) < MERKLE_HEIGHT
    /\ constants' = Append(constants, EnumerateRev(zero_values, Len(constants)))
    /\ UNCHANGED <<mz_pc, zero_values, root_constant, require_max, cases, body,
                   call_height, call_result>>
    /\ UNCHANGED <<plVars, pvVars>>

\* "uint256 constant public ZERO_VALUE_ROOT = root", root = zero_values[MERKLE_HEIGHT].
emit_root ==
    /\ mz_pc = "constants"
    /\ Len(constants) = MERKLE_HEIGHT
    /\ root_constant' = zero_values[MERKLE_HEIGHT + 1]
    /\ mz_pc' = "function"
    /\ UNCHANGED <<zero_values, constants, require_max, cases, body, call_height, call_result>>
    /\ UNCHANGED <<plVars, pvVars>>

\* The head of getZeroValue: the require, the declaration of result, "switch height".
emit_function_head ==
    /\ mz_pc = "function"
    /\ require_max' = 31
    /\ body' = <<"require", "uint256 result", "assembly switch">>
    /\ mz_pc' = "cases"
    /\ UNCHANGED <<zero_values, constants, root_constant, cases, call_height, call_result>>
    /\ UNCHANGED <<plVars, pvVars>>

\* One iteration of the loop emitting "case i { result := ZERO_VALUE_i }".
emit_case ==
    /\ mz_pc = "cases"
    /\ Len(cases) < MERKLE_HEIGHT
    /\ cases' = Append(cases, [height |-> Len(cases), constant |-> Len(cases)])
    /\ UNCHANGED <<mz_pc, zero_values, constants, root_constant, require_max, body,
                   call_height, call_result>>
    /\ UNCHANGED <<plVars, pvVars>>

\* The closing braces of the assembly block, the function and the library; the
\* contract is returned and written to the file.
emit_close ==
    /\ mz_pc = "cases"
    /\ Len(cases) = MERKLE_HEIGHT
    /\ mz_pc' = "written"
    /\ UNCHANGED <<zero_values, constants, root_constant, require_max, cases, body,
                   call_height, call_result>>
    /\ UNCHANGED <<plVars, pvVars>>

\* The emitted getZeroValue, run as Solidity runs it: the require reverts past its
\* bound; result starts at 0 and the matching case, if any, assigns it; the function
\* returns result where a return statement says so, and otherwise its unnamed return
\* variable, which is 0.
getZeroValue(h) ==
    IF h > require_max THEN [reverted |-> TRUE, value |-> 0]
    ELSE LET matching == {k \in 1..Len(cases) : cases[k].height = h}
             assigned == IF matching = {} THEN 0
                         ELSE constants[cases[CHOOSE k \in matching : TRUE].constant + 1]
             returned == IF \E k \in 1..Len(body) : body[k] = "return result"
                         THEN assigned ELSE 0
         IN  [reverted |-> FALSE, value |-> returned]

call_getZeroValue ==
    /\ mz_pc = "written"
    /\ \E h \in 0..MaxCallHeight :
          /\ call_height' = h
          /\ call_result' = getZeroValue(h)
    /\ UNCHANGED <<mz_pc, zero_values, constants, root_constant, require_max, cases, body>>
    /\ UNCHANGED <<plVars, pvVars>>

MerkleInit == PlIdle /\ PvIdle /\ MzIdle

MerkleNext ==
    \/ generate_zero_values_init
    \/ generate_zero_values_loop
    \/ generate_zero_values_return
    \/ emit_constant
    \/ emit_root
    \/ emit_function_head
    \/ emit_case
    \/ emit_close
    \/ call_getZeroValue

SpecMerkle == MerkleInit /\ [][MerkleNext]_vars

\* ------------------------------------------------------------------ properties

SharedEqual ==
    /\ pc # "idle"
    /\ \A i \in 1..LINKING_WITNESS_SIZE :
          sum_witness.shared_witness[i] = product_witness.shared_witness[i]

\* C1: linking soundness. The verifier accepts the linking proof generate_proofs
\* returned only if the two shared_witness arrays are equal in all 5 positions; with
\* sum shared <<1,2,3,4,5>> and product shared <<1,2,3,4,6>> it rejects.
C1_LinkingSoundness ==
    verdict # None =>
        /\ verdict.link = "accepted" => SharedEqual
        /\ ( /\ sum_witness.shared_witness = <<1, 2, 3, 4, 5>>
             /\ product_witness.shared_witness = <<1, 2, 3, 4, 6>> ) => verdict.link = "rejected"

C1_Witness ==
    /\ verdict # None
    /\ sum_witness.shared_witness = <<1, 2, 3, 4, 5>>
    /\ product_witness.shared_witness = <<1, 2, 3, 4, 6>>
    /\ verdict.link = "rejected"

\* C2: linking completeness. With equal shared_witness arrays generate_proofs never
\* panics, every step of it can be taken until it returns, and the sum proof, the
\* product proof and the linking proof are all accepted; shared <<1,2,3,4,5>> with
\* private 10 gives the sum statement 25, with private 2 the product statement 240.
C2_LinkingCompleteness ==
    /\ SharedEqual =>
          /\ pc # "panicked"
          /\ pc \in {"called", "statements", "sum_proved", "product_proved", "layout", "linked"}
                => ENABLED GenerateProofsStep
          /\ verdict # None =>
                verdict = [sum |-> "accepted", product |-> "accepted", link |-> "accepted"]
    /\ ( /\ pc \notin {"idle", "called"}
         /\ sum_witness = [shared_witness |-> <<1, 2, 3, 4, 5>>, private_witness |-> 10] )
            => sum = 25
    /\ ( /\ pc \notin {"idle", "called"}
         /\ product_witness = [shared_witness |-> <<1, 2, 3, 4, 5>>, private_witness |-> 2] )
            => product = 240

C2_Witness ==
    /\ verdict = [sum |-> "accepted", product |-> "accepted", link |-> "accepted"]
    /\ sum_witness = [shared_witness |-> <<1, 2, 3, 4, 5>>, private_witness |-> 10]
    /\ product_witness = [shared_witness |-> <<1, 2, 3, 4, 5>>, private_witness |-> 2]
    /\ sum = 25 /\ product = 240

\* The value each circuit's relation fixes for a witness.
SumValue(w) == ScalarAdd(SumLoop(w, 1, 0), w.private_witness)
ProductValue(w) == ScalarMul(ProductLoop(w, 1, 1), w.private_witness)
RelationValue(c, w) == IF c = SumCircuit THEN SumValue(w) ELSE ProductValue(w)

\* C3: statement binding. A proof produced for a witness and the statement its
\* circuit's relation fixes (the sum, resp. the product, of the shared values and the
\* private value) is accepted when checked against that statement and rejected when
\* checked against any other; no returned proof is accepted for another value.
C3_StatementBinding ==
    pv_pc = "verified" =>
        /\ pv_statement = RelationValue(pv_circuit, pv_witness)
              => (pv_verdict = "accepted" <=> pv_checked = pv_statement)
        /\ pv_verdict = "accepted" => pv_checked = RelationValue(pv_circuit, pv_witness)

C3_Witness ==
    /\ pv_pc = "verified"
    /\ pv_circuit = ProductCircuit
    /\ pv_statement = RelationValue(pv_circuit, pv_witness)
    /\ pv_checked # pv_statement
    /\ pv_verdict = "rejected-invalid"

Rank(p) ==
    CASE p = "idle" -> 0
      [] p = "called" -> 1
      [] p = "statements" -> 2
      [] p = "sum_proved" -> 3
      [] p = "product_proved" -> 4
      [] p = "layout" -> 5
      [] p = "linked" -> 6
      [] p = "returned" -> 7
      [] p = "verified" -> 8
      [] p = "panicked" -> 9

C7_State ==
    /\ Rank(pc) >= 3 /\ pc # "panicked" => sum_proof # None /\ sum_link_hint # None
    /\ Rank(pc) >= 4 /\ pc # "panicked" => product_proof # None /\ product_link_hint # None
    /\ Rank(pc) >= 5 /\ pc # "panicked" => group_layout # None
    /\ Rank(pc) >= 6 /\ pc # "panicked" => link_proof # None
    /\ result # None <=> pc \in {"returned", "verified"}
    /\ verdict # None <=> pc = "verified"

C7_Step ==
    /\ pc # "panicked"
    /\ run' = run => Rank(pc') >= Rank(pc)
    /\ (run' = run /\ pc' # pc) => (pc' = "panicked" \/ Rank(pc') = Rank(pc) + 1)
    /\ run' # run => (run' = run + 1 /\ pc' = "called")

\* C7: a call of generate_proofs advances one stage at a time in the order called,
\* statements, sum proved, product proved, layout, linked, returned, verified and
\* never goes back; a stage is passed only with its value produced; after a failed
\* step nothing more is executed (no later step, no retry) and nothing is returned.
C7_LinearNoRetry == [](C7_State) /\ [][C7_Step]_vars

C7_Witness ==
    /\ pc = "panicked"
    /\ sum_proof # None /\ product_proof # None /\ group_layout # None
    /\ link_proof = None /\ result = None

C8_Step ==
    (link_proof' # link_proof /\ link_proof' # None) =>
        /\ sum_link_hint # None /\ product_link_hint # None
        /\ UNCHANGED <<sum_link_hint, product_link_hint, group_layout, sum_proof, product_proof>>
        /\ link_proof'.a = sum_link_hint.session
        /\ link_proof'.b = product_link_hint.session

C8_State ==
    result # None =>
        /\ sum_link_hint.session = result.sum_proof.session
        /\ product_link_hint.session = result.product_proof.session
        /\ result.link_proof.a = result.sum_proof.session
        /\ result.link_proof.b = result.product_proof.session
        /\ result.sum_proof.circuit = SumCircuit
        /\ result.product_proof.circuit = ProductCircuit

\* C8: link_proofs runs only once both link hints exist, leaves the hints and the
\* group layout as they were, and the linking proof is made from the hint produced
\* with the returned sum proof first and the one produced with the returned product
\* proof second.
C8_LinkerSynchronizes == [](C8_State) /\ [][C8_Step]_vars

C8_Witness ==
    /\ pc = "returned"
    /\ result.link_proof.a = result.sum_proof.session
    /\ result.link_proof.b = result.product_proof.session
    /\ result.link_proof.a # result.link_proof.b

\* C9: both circuits reserve exactly 5 wires for the link group, at the same
\* positions in the same order, so the group layout and the linking verification key
\* taken from the sum circuit equal those of the product circuit.
C9_SameGroupLayout ==
    LET gs == get_group_layout(get_circuit_layout(SumCircuit), LINKING_GROUP_NAME)
        gp == get_group_layout(get_circuit_layout(ProductCircuit), LINKING_GROUP_NAME)
    IN  /\ Len(gs.positions) = 5 /\ Len(gp.positions) = 5
        /\ gs.positions = gp.positions
        /\ link_vk # None => link_vk = ProofLinkingVK_from(gp)
        /\ group_layout # None => group_layout = gp

C9_Witness ==
    /\ link_vk # None /\ group_layout # None
    /\ Len(group_layout.positions) = 5

\* C6: the emitted getZeroValue returns, for every height its require accepts, the
\* emitted constant ZERO_VALUE_height.
C6_GetZeroValueReturnsConstant ==
    (call_result # None /\ ~call_result.reverted) =>
        /\ call_height + 1 \in DOMAIN constants
        /\ call_result.value = constants[call_height + 1]

\* Every height the require accepts has its case, and the case assigns its constant.
C6_EveryAcceptedHeightHasItsCase ==
    mz_pc = "written" =>
        \A h \in 0..require_max :
            \E k \in 1..Len(cases) : cases[k].height = h /\ cases[k].constant = h

\* C10: generate_zero_values returns MERKLE_HEIGHT + 1 values, the leaf zero value
\* first and each next one the hash of the one before with itself; ZERO_VALUE_i is
\* element MERKLE_HEIGHT - 1 - i and ZERO_VALUE_ROOT element MERKLE_HEIGHT, so
\* ZERO_VALUE_ROOT = hash(ZERO_VALUE_0, ZERO_VALUE_0) and
\* ZERO_VALUE_i = hash(ZERO_VALUE_{i+1}, ZERO_VALUE_{i+1}).
C10_ZeroValueChain ==
    /\ mz_pc \notin {"idle", "zeros"} =>
          /\ Len(zero_values) = MERKLE_HEIGHT + 1
          /\ zero_values[1] = from_be_bytes_mod_order(Keccak_v256(LEAF_KECCAK_PREIMAGE), 1, 0)
          /\ \A h \in 1..MERKLE_HEIGHT :
                zero_values[h + 1] = compute_poseidon_hash(<<zero_values[h], zero_values[h]>>)
    /\ mz_pc \in {"function", "cases", "written"} =>
          /\ Len(constants) = MERKLE_HEIGHT
          /\ \A i \in 0..(MERKLE_HEIGHT - 1) : constants[i + 1] = zero_values[MERKLE_HEIGHT - 1 - i + 1]
          /\ root_constant = zero_values[MERKLE_HEIGHT + 1]
          /\ root_constant = compute_poseidon_hash(<<constants[1], constants[1]>>)
          /\ \A i \in 0..(MERKLE_HEIGHT - 2) :
                constants[i + 1] = compute_poseidon_hash(<<constants[i + 2], constants[i + 2]>>)

C10_Witness ==
    /\ mz_pc = "written"
    /\ Len(zero_values) = MERKLE_HEIGHT + 1
    /\ Len(constants) = MERKLE_HEIGHT
    /\ root_constant = compute_poseidon_hash(<<constants[1], constants[1]>>)

====
